---- MODULE Spec2Model ----
(***************************************************************************)
(* simpleServer: a static file server with an auth gate, conditional       *)
(* caching and a routing fallback (src/lib/simpleServer.js), its MIME      *)
(* table (mime.js, the second half of src/test.js) and the CLI entry point *)
(* (the first half of src/test.js).                                        *)
(*                                                                         *)
(* JavaScript strings are TLA+ strings; a string's characters are read     *)
(* with SubSeq(s, i, i).  A Buffer is a sequence of bytes (0..255).  A     *)
(* file's bytes and a string written in an encoding meet in Utf8Encode /   *)
(* Utf8Decode, which compute on code points.                               *)
(***************************************************************************)
EXTENDS Integers, Sequences, FiniteSets, TLC

VARIABLES config, fs, fsOps, req

vars == <<config, fs, fsOps, req>>

-----------------------------------------------------------------------------
(* Bounds of the model *)

\* changes other processes make to the served files during the run
MaxFsOps == 1
\* length of the If-None-Match values contentModified is tried on
MaxHeaderLen == 4
\* define / load calls made on the MIME table after the module's own load
MaxTableOps == 2

-----------------------------------------------------------------------------
(* The JavaScript values the handlers meet *)

\* the value of a missing property / header
Undefined == "\\undefined"

\* JavaScript truthiness of a string-or-undefined value
Truthy(v) == v /= Undefined /\ v /= ""

\* printable ASCII in code order: codes 32..95, and 97..126
AsciiLow == " !\"#$%&'()*+,-./0123456789:;<=>?@ABCDEFGHIJKLMNOPQRSTUVWXYZ[\\]^_"
AsciiHigh == "abcdefghijklmnopqrstuvwxyz{|}~"

\* the replacement character a decoder puts for an ill-formed sequence
ReplacementChar == 65533

CharAt(s, i) == SubSeq(s, i, i)

\* String.prototype.charCodeAt for the printable ASCII characters
CharCode(c) ==
    IF \E i \in 1..Len(AsciiLow) : SubSeq(AsciiLow, i, i) = c
    THEN 31 + (CHOOSE i \in 1..Len(AsciiLow) : SubSeq(AsciiLow, i, i) = c)
    ELSE 96 + (CHOOSE i \in 1..Len(AsciiHigh) : SubSeq(AsciiHigh, i, i) = c)

\* the UTF-16 code units of an ASCII string
CodeUnits(s) == [i \in 1..Len(s) |-> CharCode(CharAt(s, i))]

\* String.prototype.indexOf(c) === 0 for a prefix p
StartsWith(s, p) == Len(s) >= Len(p) /\ SubSeq(s, 1, Len(p)) = p

\* Number -> String for the non-negative integers of the model
RECURSIVE NumStr(_)
NumStr(n) ==
    IF n < 10 THEN CharAt("0123456789", n + 1)
    ELSE NumStr(n \div 10) \o CharAt("0123456789", (n % 10) + 1)

\* Buffer.prototype.toString('utf8'): a sequence of code units; an
\* ill-formed byte decodes to U+FFFD.  One- and two-byte forms are decoded
\* arithmetically; the byte alphabet of the model has no longer form.
RECURSIVE Utf8Decode(_)
Utf8Decode(b) ==
    IF b = <<>> THEN <<>>
    ELSE IF b[1] < 128 THEN <<b[1]>> \o Utf8Decode(Tail(b))
    ELSE IF /\ b[1] >= 194 /\ b[1] < 224 /\ Len(b) >= 2
            /\ b[2] >= 128 /\ b[2] < 192
         THEN <<(b[1] - 192) * 64 + (b[2] - 128)>> \o Utf8Decode(SubSeq(b, 3, Len(b)))
    ELSE <<ReplacementChar>> \o Utf8Decode(Tail(b))

\* the bytes a string (code units) takes on the wire when written as utf8
RECURSIVE Utf8Encode(_)
Utf8Encode(u) ==
    IF u = <<>> THEN <<>>
    ELSE (IF u[1] < 128 THEN <<u[1]>>
          ELSE IF u[1] < 2048 THEN <<192 + (u[1] \div 64), 128 + (u[1] % 64)>>
          ELSE <<224 + (u[1] \div 4096), 128 + ((u[1] \div 64) % 64), 128 + (u[1] % 64)>>)
         \o Utf8Encode(Tail(u))


\* String.prototype.toLowerCase on ASCII
Upper == "ABCDEFGHIJKLMNOPQRSTUVWXYZ"
Lower == "abcdefghijklmnopqrstuvwxyz"

LowerChar(c) ==
    IF \E i \in 1..Len(Upper) : SubSeq(Upper, i, i) = c
    THEN LET i == CHOOSE j \in 1..Len(Upper) : SubSeq(Upper, j, j) = c
         IN  SubSeq(Lower, i, i)
    ELSE c

RECURSIVE ToLowerCase(_)
ToLowerCase(s) ==
    IF s = "" THEN "" ELSE LowerChar(Head(s)) \o ToLowerCase(Tail(s))

\* index (from 1) of the first / last occurrence of character c in s, 0 if none
IndexOf(s, c) ==
    IF \E i \in 1..Len(s) : CharAt(s, i) = c
    THEN CHOOSE i \in 1..Len(s) :
            /\ CharAt(s, i) = c
            /\ \A j \in 1..(i - 1) : CharAt(s, j) /= c
    ELSE 0

LastIndexOf(s, c) ==
    IF \E i \in 1..Len(s) : CharAt(s, i) = c
    THEN CHOOSE i \in 1..Len(s) :
            /\ CharAt(s, i) = c
            /\ \A j \in (i + 1)..Len(s) : CharAt(s, j) /= c
    ELSE 0

\* String.prototype.split(c) for a one-character separator
RECURSIVE Split(_, _)
Split(s, c) ==
    LET i == IndexOf(s, c)
    IN  IF i = 0 THEN <<s>>
        ELSE <<SubSeq(s, 1, i - 1)>> \o Split(SubSeq(s, i + 1, Len(s)), c)

-----------------------------------------------------------------------------
(* Path (node's path module, as handleRequest and mime.lookup use it) *)

\* normalizeArray: resolve '.', '' and '..' segments; a relative path may
\* climb above its start
RECURSIVE NormalizeArray(_, _, _)
NormalizeArray(parts, acc, allowAboveRoot) ==
    IF parts = <<>> THEN acc
    ELSE LET p == Head(parts)
             rest == Tail(parts)
         IN  IF p = "" \/ p = "." THEN NormalizeArray(rest, acc, allowAboveRoot)
             ELSE IF p = ".."
                  THEN IF acc /= <<>> /\ acc[Len(acc)] /= ".."
                       THEN NormalizeArray(rest, SubSeq(acc, 1, Len(acc) - 1), allowAboveRoot)
                       ELSE IF allowAboveRoot
                            THEN NormalizeArray(rest, Append(acc, ".."), allowAboveRoot)
                            ELSE NormalizeArray(rest, acc, allowAboveRoot)
             ELSE NormalizeArray(rest, Append(acc, p), allowAboveRoot)

RECURSIVE Join(_, _)
Join(parts, sep) ==
    IF parts = <<>> THEN ""
    ELSE IF Len(parts) = 1 THEN parts[1]
    ELSE parts[1] \o sep \o Join(Tail(parts), sep)

\* Path.normalize
PathNormalize(path) ==
    LET isAbsolute == StartsWith(path, "/")
        trailingSlash == Len(path) > 0 /\ CharAt(path, Len(path)) = "/"
        body == Join(NormalizeArray(Split(path, "/"), <<>>, ~isAbsolute), "/")
        p1 == IF body = "" /\ ~isAbsolute THEN "." ELSE body
        p2 == IF p1 /= "" /\ trailingSlash THEN p1 \o "/" ELSE p1
    IN  (IF isAbsolute THEN "/" ELSE "") \o p2

\* Path.extname: from the last '.' of the last path segment, '' when there
\* is none or the segment only starts with it
PathExtname(path) ==
    LET base == SubSeq(path, LastIndexOf(path, "/") + 1, Len(path))
        dot == LastIndexOf(base, ".")
    IN  IF dot <= 1 THEN "" ELSE SubSeq(base, dot, Len(base))


-----------------------------------------------------------------------------
(* mime.js: the extension table after load(mime.types), lookup, encoding *)

\* src/lib/mime.types, character for character (the file does not end in a
\* newline)
MimeTypesFile ==
    "# MIME type                     Extensions\n"
    \o "# ===========================   ==========\n"
    \o "application/javascript          js\n"
    \o "application/json                json\n"
    \o "application/octet-stream        bin zip tgz lzh lha iso dmg pkg\n"
    \o "application/pdf                 pdf\n"
    \o "\n"
    \o "image/bmp                       bmp\n"
    \o "image/gif                       gif\n"
    \o "image/jpeg                      jpeg jpg jpe\n"
    \o "image/png                       png\n"
    \o "image/svg+xml                   svg svgz\n"
    \o "image/x-icon                    ico\n"
    \o "\n"
    \o "text/css                        css\n"
    \o "text/html                       html htm\n"
    \o "text/plain                      txt conf log\n"
    \o "\n"
    \o "# HTML application cache manifest required by Mozilla when serving HTML5 apps\n"
    \o "#   https://developer.mozilla.org/en/offline_resources_in_firefox\n"
    \o "text/cache-manifest             appcache manifest\n"
    \o "\n"
    \o "# Silence the Google Chrome message:\n"
    \o "#   \"Resource interpreted as font but transferred with Mime type font/otf\"\n"
    \o "font/opentype                   otf\n"
    \o "\n"
    \o "# Google Chrome Extension to allow apps to be served with the right content\n"
    \o "# type header and thus work.\n"
    \o "#       http://codereview.chromium.org/2830017\n"
    \o "application/x-chrome-extension  crx"

\* \s and [\r\n] of the regular expressions
Spaces == {" ", "\t", "\n", "\r", "\f"}
Newlines == {"\n", "\r"}

\* index of the first character of s from index i on that is / is not a
\* separator, Len(s) + 1 if there is none
RECURSIVE FirstSep(_, _, _)
FirstSep(s, i, seps) ==
    IF i > Len(s) \/ CharAt(s, i) \in seps THEN i ELSE FirstSep(s, i + 1, seps)

RECURSIVE FirstNonSep(_, _, _)
FirstNonSep(s, i, seps) ==
    IF i > Len(s) \/ CharAt(s, i) \notin seps THEN i ELSE FirstNonSep(s, i + 1, seps)

\* String.prototype.split(/[...]+/): the pieces between the maximal runs of
\* separator characters; a run at either end leaves an empty piece there
RECURSIVE SplitRuns(_, _)
SplitRuns(s, seps) ==
    LET i == FirstSep(s, 1, seps)
    IN  IF i > Len(s) THEN <<s>>
        ELSE <<SubSeq(s, 1, i - 1)>>
             \o SplitRuns(SubSeq(s, FirstNonSep(s, i, seps), Len(s)), seps)

\* line.replace(reClean, ''): of the two alternatives of
\* /\s*$.*}^\s*|\s*$/g the first can match nowhere (a '}' would have to
\* follow the end of the string), so only trailing whitespace goes
RECURSIVE ReplaceClean(_)
ReplaceClean(line) ==
    IF line /= "" /\ CharAt(line, Len(line)) \in Spaces
    THEN ReplaceClean(SubSeq(line, 1, Len(line) - 1))
    ELSE line

\* map[key] = value on an object kept as the sequence of its <<key, value>>
\* properties in insertion order
MapPut(map, key, value) ==
    IF \E i \in 1..Len(map) : map[i][1] = key
    THEN [i \in 1..Len(map) |-> IF map[i][1] = key THEN <<key, value>> ELSE map[i]]
    ELSE Append(map, <<key, value>>)

\* the inner loop of define: every extension of exts gets the type
RECURSIVE DefineExts(_, _, _)
DefineExts(types, type, exts) ==
    IF exts = <<>> THEN types
    ELSE DefineExts((Head(exts) :> type) @@ types, type, Tail(exts))

\* mime.define(map) on the table types: the table afterwards
RECURSIVE define(_, _)
define(types, map) ==
    IF map = <<>> THEN types
    ELSE define(DefineExts(types, Head(map)[1], Head(map)[2]), Tail(map))

\* the map load builds from the lines of a file
RECURSIVE LoadMap(_, _)
LoadMap(lines, map) ==
    IF lines = <<>> THEN map
    ELSE LET fields == SplitRuns(ReplaceClean(Head(lines)), Spaces)
         IN  LoadMap(Tail(lines), MapPut(map, Head(fields), Tail(fields)))

\* mime.load(file) for a readable file with the given content, on the table
\* types: the table afterwards
load(types, content) ==
    define(types, LoadMap(SplitRuns(content, Newlines), <<>>))

\* mime.types is {} before the first load
EmptyTypes == <<>>

\* the table after the module's own load(mime.types)
MimeTypes == load(EmptyTypes, MimeTypesFile)

\* mime.defaults after a successful load: type is types.bin
MimeDefaults == [type |-> MimeTypes["bin"], encoding |-> "binary"]

\* the lower-case-only property names every object inherits from
\* Object.prototype, and the value read through them (an object or a
\* function, never a string)
InheritedKeys == {"constructor", "__proto__"}
InheritedValue == "\\object"

\* this.types[ext]
TypesGet(types, ext) ==
    IF ext \in DOMAIN types THEN types[ext]
    ELSE IF ext \in InheritedKeys THEN InheritedValue
    ELSE Undefined

\* mime.lookup(pathname, defaultType) on the table types
lookup(types, pathname, defaultType) ==
    LET dotted == PathExtname(pathname)
        ext == ToLowerCase(SubSeq(dotted, 2, Len(dotted)))
    IN  IF Truthy(TypesGet(types, ext)) THEN TypesGet(types, ext)
        ELSE IF Truthy(defaultType) THEN defaultType
        ELSE MimeDefaults.type

\* mime.lookup(pathname) with no defaultType argument, as handleRequest
\* calls it
MimeLookup(pathname) == lookup(MimeTypes, pathname, Undefined)

\* mime.encoding(mimeType) with no defaultEnc argument
MimeEncoding(mimeType) ==
    IF SubSeq(mimeType, 1, 4) = "text" THEN "utf8" ELSE MimeDefaults.encoding

-----------------------------------------------------------------------------
(* Date: the two conversions the caching headers go through *)

MsPerSecond == 1000

\* Date.prototype.toUTCString for a time within the first minute of the
\* epoch: whole seconds, the milliseconds are dropped
ToUTCString(ms) ==
    LET sec == ms \div MsPerSecond
    IN  "Thu, 01 Jan 1970 00:00:" \o NumStr(sec \div 10) \o NumStr(sec % 10) \o " GMT"

\* the value of a decimal digit character, -1 for any other character
DigitValue(c) ==
    IF \E d \in 0..9 : NumStr(d) = c THEN CHOOSE d \in 0..9 : NumStr(d) = c ELSE -1

\* NaN, the time value of an invalid Date
NaN == -1

\* new Date(string).getTime() for the strings of the model: an HTTP date of
\* the first minute of the epoch parses to its milliseconds, any other
\* string is an invalid date
DateParse(s) ==
    IF /\ Len(s) = 29
       /\ SubSeq(s, 1, 23) = "Thu, 01 Jan 1970 00:00:"
       /\ SubSeq(s, 26, 29) = " GMT"
       /\ DigitValue(CharAt(s, 24)) \in 0..5
       /\ DigitValue(CharAt(s, 25)) \in 0..9
    THEN (DigitValue(CharAt(s, 24)) * 10 + DigitValue(CharAt(s, 25))) * MsPerSecond
    ELSE NaN

-----------------------------------------------------------------------------
(* contentModified *)

\* the number of spaces that end s / that start s
RECURSIVE TrailingSpaces(_)
TrailingSpaces(s) ==
    IF s /= "" /\ CharAt(s, Len(s)) = " "
    THEN 1 + TrailingSpaces(SubSeq(s, 1, Len(s) - 1)) ELSE 0

RECURSIVE LeadingSpaces(_)
LeadingSpaces(s) ==
    IF s /= "" /\ Head(s) = " " THEN 1 + LeadingSpaces(Tail(s)) ELSE 0

\* noneMatch.split(/ *, */): cut at each comma together with the spaces
\* around it
RECURSIVE SplitList(_)
SplitList(s) ==
    LET i == IndexOf(s, ",")
    IN  IF i = 0 THEN <<s>>
        ELSE LET before == SubSeq(s, 1, i - 1)
                 after == SubSeq(s, i + 1, Len(s))
             IN  <<SubSeq(before, 1, Len(before) - TrailingSpaces(before))>>
                 \o SplitList(SubSeq(after, LeadingSpaces(after) + 1, Len(after)))

\* a header of a header object, undefined when the object has none
HeaderOf(headers, name) ==
    IF name \in DOMAIN headers THEN headers[name] ELSE Undefined

\* contentModified as a bug would have it: 'noneMatch.indexOf(etag)' taken
\* as the condition, so that a tag found first in the list (index 0) is
\* not found
contentModifiedIndexTruthy(requestHeaders, headers) ==
    LET modifiedSince == HeaderOf(requestHeaders, "if-modified-since")
        lastModified == HeaderOf(headers, "Last-Modified")
        noneMatch == HeaderOf(requestHeaders, "if-none-match")
        etag == HeaderOf(headers, "ETag")
    IN  IF /\ Truthy(noneMatch) /\ Truthy(etag)
           /\ \E i \in 2..Len(SplitList(noneMatch)) : SplitList(noneMatch)[i] = etag
        THEN FALSE
        ELSE IF /\ Truthy(modifiedSince) /\ Truthy(lastModified)
                /\ DateParse(modifiedSince) /= NaN
                /\ DateParse(lastModified) /= NaN
                /\ DateParse(lastModified) <= DateParse(modifiedSince)
             THEN FALSE
             ELSE TRUE

\* contentModified with a strict date comparison: a copy as new as the file
\* counts as stale
contentModifiedStrictlyBefore(requestHeaders, headers) ==
    LET modifiedSince == HeaderOf(requestHeaders, "if-modified-since")
        lastModified == HeaderOf(headers, "Last-Modified")
        noneMatch == HeaderOf(requestHeaders, "if-none-match")
        etag == HeaderOf(headers, "ETag")
    IN  IF /\ Truthy(noneMatch) /\ Truthy(etag)
           /\ \E i \in 1..Len(SplitList(noneMatch)) : SplitList(noneMatch)[i] = etag
        THEN FALSE
        ELSE IF /\ Truthy(modifiedSince) /\ Truthy(lastModified)
                /\ DateParse(modifiedSince) /= NaN
                /\ DateParse(lastModified) /= NaN
                /\ DateParse(lastModified) < DateParse(modifiedSince)
             THEN FALSE
             ELSE TRUE

\* contentModified as a bug would have it: an invalid If-Modified-Since
\* date answers 'not modified'
contentModifiedFailClosed(requestHeaders, headers) ==
    LET modifiedSince == HeaderOf(requestHeaders, "if-modified-since")
        lastModified == HeaderOf(headers, "Last-Modified")
        noneMatch == HeaderOf(requestHeaders, "if-none-match")
        etag == HeaderOf(headers, "ETag")
    IN  IF /\ Truthy(noneMatch) /\ Truthy(etag)
           /\ \E i \in 1..Len(SplitList(noneMatch)) : SplitList(noneMatch)[i] = etag
        THEN FALSE
        ELSE IF /\ Truthy(modifiedSince) /\ Truthy(lastModified)
                /\ \/ DateParse(modifiedSince) = NaN
                   \/ /\ DateParse(lastModified) /= NaN
                      /\ DateParse(lastModified) <= DateParse(modifiedSince)
             THEN FALSE
             ELSE TRUE

\* contentModified(request, response, headers): false when the request's
\* validators say the client's copy is current
contentModified(requestHeaders, headers) ==
    LET modifiedSince == HeaderOf(requestHeaders, "if-modified-since")
        lastModified == HeaderOf(headers, "Last-Modified")
        noneMatch == HeaderOf(requestHeaders, "if-none-match")
        etag == HeaderOf(headers, "ETag")
    IN  IF /\ Truthy(noneMatch) /\ Truthy(etag)
           /\ \E i \in 1..Len(SplitList(noneMatch)) : SplitList(noneMatch)[i] = etag
        THEN FALSE
        ELSE IF /\ Truthy(modifiedSince) /\ Truthy(lastModified)
                /\ DateParse(modifiedSince) /= NaN
                /\ DateParse(lastModified) /= NaN
                /\ DateParse(lastModified) <= DateParse(modifiedSince)
             THEN FALSE
             ELSE TRUE


-----------------------------------------------------------------------------
(* Http.ServerResponse, as far as the server drives it *)

\* a fresh response: no header set, statusCode 200, nothing sent.  log is
\* the sequence of calls that reached the stream.
NewResponse == [headers |-> <<>>, statusCode |-> 200, log |-> <<>>]

HeadSent(response) ==
    \E i \in 1..Len(response.log) : response.log[i].op \in {"writeHead", "implicitHeader"}

\* response.setHeader(name, value): kept under the lower-cased name
SetHeader(response, name, value) ==
    [response EXCEPT !.headers =
        (ToLowerCase(name) :> value) @@ response.headers]

\* response.removeHeader(name)
RemoveHeader(response, name) ==
    [response EXCEPT !.headers =
        [n \in (DOMAIN response.headers) \ {ToLowerCase(name)} |-> response.headers[n]]]

\* a write or end before any writeHead sends the head with statusCode and
\* the headers set so far
ImplicitHeader(response) ==
    IF HeadSent(response) THEN response
    ELSE [response EXCEPT !.log =
            Append(@, [op |-> "implicitHeader", code |-> response.statusCode])]

\* response.writeHead(code, headers)
WriteHead(response, code, headers) ==
    [response EXCEPT !.log = Append(@, [op |-> "writeHead", code |-> code, headers |-> headers])]

\* response.write(chunk, encoding): a chunk that is neither a string nor a
\* Buffer makes it throw a TypeError
Write(response, chunk, encoding) ==
    IF chunk.kind \in {"string", "buffer"}
    THEN [ImplicitHeader(response) EXCEPT !.log =
            Append(@, [op |-> "write", chunk |-> chunk, encoding |-> encoding])]
    ELSE [ImplicitHeader(response) EXCEPT !.log =
            Append(@, [op |-> "throw", error |-> "TypeError"])]

\* the last call on the response threw
Thrown(response) ==
    response.log /= <<>> /\ response.log[Len(response.log)].op = "throw"

\* response.end()
End(response) ==
    [ImplicitHeader(response) EXCEPT !.log = Append(@, [op |-> "end"])]


-----------------------------------------------------------------------------
(* sendResponse *)

\* the values config.content takes: a string (its UTF-16 code units), a
\* Buffer (its bytes), undefined, or another JavaScript value
StringContent(units) == [kind |-> "string", units |-> units]
BufferContent(bytes) == [kind |-> "buffer", bytes |-> bytes]
UndefinedContent == [kind |-> "undefined"]
ValueContent(v) == [kind |-> "value", value |-> v]

\* a string literal of the source as content
Literal(s) == StringContent(CodeUnits(s))

\* a primitive string passed where the config object is expected: every
\* property the code reads from it is undefined, and an assignment to one of
\* its properties is dropped
PrimitiveString(s) == [primitive |-> s]

\* Buffer.prototype.toString(encoding): 'binary' takes each byte as a code
\* unit
BufferToString(bytes, encoding) ==
    IF encoding = "utf8" THEN Utf8Decode(bytes) ELSE bytes

\* JavaScript values other than a top-level string or Buffer.  An object is
\* the sequence of its <<key, value>> properties in insertion order.
JsNull == [t |-> "null"]
JsUndefined == [t |-> "undefined"]
JsNaN == [t |-> "nan"]
JsBool(b) == [t |-> "bool", b |-> b]
JsNum(n) == [t |-> "num", n |-> n]
JsStr(s) == [t |-> "str", s |-> s]
JsArr(elems) == [t |-> "arr", elems |-> elems]
JsObj(props) == [t |-> "obj", props |-> props]

\* truthiness of such a value (config.content || '')
JsTruthy(v) ==
    CASE v.t \in {"null", "undefined", "nan"} -> FALSE
      [] v.t = "bool" -> v.b
      [] v.t = "num" -> v.n /= 0
      [] v.t = "str" -> v.s /= ""
      [] OTHER -> TRUE

\* String.fromCharCode for the printable ASCII characters
CharOf(code) ==
    IF code < 96 THEN CharAt(AsciiLow, code - 31) ELSE CharAt(AsciiHigh, code - 96)

\* the string with the given code units
RECURSIVE FromUnits(_)
FromUnits(u) ==
    IF u = <<>> THEN "" ELSE CharOf(Head(u)) \o FromUnits(Tail(u))

\* JSON Quote(): the string literal of s, with '"' and '\' escaped
RECURSIVE JsonEscape(_)
JsonEscape(s) ==
    IF s = "" THEN ""
    ELSE (IF Head(s) = "\"" \/ Head(s) = "\\" THEN "\\" \o Head(s) ELSE Head(s))
         \o JsonEscape(Tail(s))

JsonQuote(s) == "\"" \o JsonEscape(s) \o "\""

\* JSON.stringify(value): the text, or Undefined for a value that has none.
\* NaN is written as null; an undefined array element is written as null; a
\* property whose value is undefined is left out.
RECURSIVE Stringify(_)
RECURSIVE StringifyElems(_)
RECURSIVE StringifyProps(_, _)
Stringify(v) ==
    CASE v.t = "undefined" -> Undefined
      [] v.t = "null" -> "null"
      [] v.t = "nan" -> "null"
      [] v.t = "bool" -> (IF v.b THEN "true" ELSE "false")
      [] v.t = "num" -> NumStr(v.n)
      [] v.t = "str" -> JsonQuote(v.s)
      [] v.t = "arr" -> "[" \o StringifyElems(v.elems) \o "]"
      [] v.t = "obj" -> "{" \o StringifyProps(v.props, TRUE) \o "}"

StringifyElems(elems) ==
    IF elems = <<>> THEN ""
    ELSE LET s == Stringify(Head(elems))
         IN  (IF s = Undefined THEN "null" ELSE s)
             \o (IF Len(elems) > 1 THEN "," ELSE "")
             \o StringifyElems(Tail(elems))

StringifyProps(props, first) ==
    IF props = <<>> THEN ""
    ELSE LET s == Stringify(Head(props)[2])
         IN  IF s = Undefined THEN StringifyProps(Tail(props), first)
             ELSE (IF first THEN "" ELSE ",")
                  \o JsonQuote(Head(props)[1]) \o ":" \o s
                  \o StringifyProps(Tail(props), FALSE)

\* JSON.parse(text) on the compact form: the value, or SyntaxError.  Each
\* parser returns [ok, value, next] with next the index after what it read.
SyntaxError == [t |-> "SyntaxError"]
ParseFail == [ok |-> FALSE, value |-> SyntaxError, next |-> 0]
Parsed(v, n) == [ok |-> TRUE, value |-> v, next |-> n]
Digits == "0123456789"
IsDigit(c) == c /= "" /\ IndexOf(Digits, c) > 0

\* the text s has the literal lit at index i
HasAt(s, i, lit) ==
    i + Len(lit) - 1 <= Len(s) /\ SubSeq(s, i, i + Len(lit) - 1) = lit

RECURSIVE ParseNumber(_, _, _)
ParseNumber(s, i, acc) ==
    IF i <= Len(s) /\ IsDigit(CharAt(s, i))
    THEN ParseNumber(s, i + 1, acc * 10 + (IndexOf(Digits, CharAt(s, i)) - 1))
    ELSE Parsed(JsNum(acc), i)

RECURSIVE ParseString(_, _, _)
ParseString(s, i, acc) ==
    IF i > Len(s) THEN ParseFail
    ELSE IF CharAt(s, i) = "\"" THEN Parsed(JsStr(acc), i + 1)
    ELSE IF CharAt(s, i) = "\\"
         THEN IF i + 1 <= Len(s) /\ CharAt(s, i + 1) \in {"\"", "\\"}
              THEN ParseString(s, i + 2, acc \o CharAt(s, i + 1))
              ELSE ParseFail
    ELSE ParseString(s, i + 1, acc \o CharAt(s, i))

RECURSIVE ParseValue(_, _)
RECURSIVE ParseElems(_, _, _)
RECURSIVE ParseProps(_, _, _)
ParseValue(s, i) ==
    IF i > Len(s) THEN ParseFail
    ELSE LET c == CharAt(s, i)
         IN  CASE HasAt(s, i, "null") -> Parsed(JsNull, i + 4)
               [] HasAt(s, i, "true") -> Parsed(JsBool(TRUE), i + 4)
               [] HasAt(s, i, "false") -> Parsed(JsBool(FALSE), i + 5)
               [] IsDigit(c) -> ParseNumber(s, i, 0)
               [] c = "\"" -> ParseString(s, i + 1, "")
               [] c = "[" ->
                    IF i + 1 <= Len(s) /\ CharAt(s, i + 1) = "]"
                    THEN Parsed(JsArr(<<>>), i + 2)
                    ELSE ParseElems(s, i + 1, <<>>)
               [] c = "{" ->
                    IF i + 1 <= Len(s) /\ CharAt(s, i + 1) = "}"
                    THEN Parsed(JsObj(<<>>), i + 2)
                    ELSE ParseProps(s, i + 1, <<>>)
               [] OTHER -> ParseFail

ParseElems(s, i, acc) ==
    LET e == ParseValue(s, i)
    IN  IF ~e.ok \/ e.next > Len(s) THEN ParseFail
        ELSE IF CharAt(s, e.next) = "," THEN ParseElems(s, e.next + 1, Append(acc, e.value))
        ELSE IF CharAt(s, e.next) = "]" THEN Parsed(JsArr(Append(acc, e.value)), e.next + 1)
        ELSE ParseFail

ParseProps(s, i, acc) ==
    IF i > Len(s) \/ CharAt(s, i) /= "\"" THEN ParseFail
    ELSE LET k == ParseString(s, i + 1, "")
         IN  IF ~k.ok \/ k.next > Len(s) \/ CharAt(s, k.next) /= ":" THEN ParseFail
             ELSE LET e == ParseValue(s, k.next + 1)
                      props == Append(acc, <<k.value.s, e.value>>)
                  IN  IF ~e.ok \/ e.next > Len(s) THEN ParseFail
                      ELSE IF CharAt(s, e.next) = "," THEN ParseProps(s, e.next + 1, props)
                      ELSE IF CharAt(s, e.next) = "}" THEN Parsed(JsObj(props), e.next + 1)
                      ELSE ParseFail

JsonParse(s) ==
    LET r == ParseValue(s, 1)
    IN  IF r.ok /\ r.next = Len(s) + 1 THEN r.value ELSE SyntaxError

\* the content converted with String() in place of JSON.stringify
JsonStringifyAsString(content) ==
    IF content.kind = "undefined" THEN UndefinedContent
    ELSE StringContent(CodeUnits(
            IF content.value.t = "obj" THEN "[object Object]"
            ELSE IF content.value.t = "arr" THEN ""
            ELSE Stringify(content.value)))

\* JSON.stringify(config.content) for a content that is neither string nor
\* Buffer; undefined stringifies to undefined
JsonStringify(content) ==
    IF content.kind = "undefined" THEN UndefinedContent
    ELSE LET s == Stringify(content.value)
         IN  IF s = Undefined THEN UndefinedContent ELSE StringContent(CodeUnits(s))

\* the bytes a chunk puts on the wire: a Buffer as it is, a string in the
\* given encoding
WireBytes(chunk, encoding) ==
    IF chunk.kind = "buffer" THEN chunk.bytes
    ELSE IF encoding = "utf8" THEN Utf8Encode(chunk.units)
    ELSE [i \in 1..Len(chunk.units) |-> chunk.units[i] % 256]

\* sendResponse(response, config): the response after the call
sendResponse(response, conf) ==
    LET Has(f) == f \in DOMAIN conf
        headers0 ==
            IF Has("headers") THEN conf.headers
            ELSE ("Content-Type" :> (IF Has("mimeType") THEN conf.mimeType ELSE "text/html"))
        headersOnly == Has("headersOnly") /\ conf.headersOnly = TRUE
        noClose == Has("noClose") /\ conf.noClose = TRUE
        noHead == Has("noHead") /\ conf.noHead = TRUE
        encoding == IF Has("encoding") /\ Truthy(conf.encoding) THEN conf.encoding ELSE "utf8"
        content0 == IF Has("content") THEN conf.content ELSE UndefinedContent
        contentType == HeaderOf(headers0, "Content-Type")
        \* lines 225-228
        convert ==
            /\ ~headersOnly
            /\ Truthy(contentType)
            /\ SubSeq(contentType, 1, 4) = "text"
            /\ content0.kind /= "string"
        \* lines 230-239; the assignment to config.content is lost on a primitive
        assigned ==
            IF content0.kind = "buffer"
            THEN StringContent(BufferToString(content0.bytes, encoding))
            ELSE JsonStringify(content0)
        content1 ==
            IF convert /\ ~Has("primitive") THEN assigned ELSE content0
        headers1 ==
            IF convert /\ content0.kind /= "buffer"
            THEN ("Content-Type" :> "application/json") @@ headers0
            ELSE headers0
        \* lines 242-245
        headers2 ==
            IF content1.kind = "string" /\ ~noClose
            THEN ("Content-Length" :> Len(content1.units)) @@ headers1
            ELSE headers1
        code == IF Has("code") /\ conf.code /= 0 THEN conf.code ELSE 200
        \* config.content || ''
        chunk ==
            IF \/ content1.kind = "undefined"
               \/ content1.kind = "value" /\ ~JsTruthy(content1.value)
            THEN StringContent(<<>>) ELSE content1
        r1 == IF noHead THEN response ELSE WriteHead(response, code, headers2)
        r2 == IF headersOnly THEN r1 ELSE Write(r1, chunk, encoding)
        \* an exception thrown by write leaves the function
        r3 == IF noClose \/ Thrown(r2) THEN r2 ELSE End(r2)
    IN  r3

\* removeContentHeaders(response): _.each visits the own properties of the
\* response object; these are the names a ServerResponse carries
ResponseKeys ==
    {"output", "outputEncodings", "writable", "chunkedEncoding", "shouldKeepAlive",
     "useChunkedEncodingByDefault", "sendDate", "finished", "socket", "connection",
     "statusCode", "_last", "_hasBody", "_trailer", "_headers", "_headerNames"}

RECURSIVE RemoveAll(_, _)
RemoveAll(response, keys) ==
    IF keys = {} THEN response
    ELSE LET k == CHOOSE x \in keys : TRUE
         IN  RemoveAll(RemoveHeader(response, k), keys \ {k})

removeContentHeaders(response) ==
    RemoveAll(response, {key \in ResponseKeys : StartsWith(key, "content")})


-----------------------------------------------------------------------------
(* The file system under the server's working directory *)

NoNode == [type |-> "none"]
DirNode == [type |-> "dir"]
FileNode(bytes, mtime, readable) ==
    [type |-> "file", bytes |-> bytes, mtime |-> mtime, readable |-> readable]

\* mtime (ms) of the files when the server starts / of a later write, the
\* latter not on a whole second
StartTime == MsPerSecond
WriteTime == 2 * MsPerSecond + (MsPerSecond \div 2)

\* ./public holds index.html ('A'), logo.png, docs/index.html (one two-byte
\* UTF-8 character) and a file with the extension 'constructor';
\* ../etc/passwd lies outside it
InitFs ==
    ("public" :> DirNode)
    @@ ("public/index.html" :> FileNode(<<65>>, StartTime, TRUE))
    @@ ("public/logo.png" :> FileNode(<<137, 80>>, StartTime, TRUE))
    @@ ("public/docs" :> DirNode)
    @@ ("public/docs/index.html" :> FileNode(<<195, 169>>, StartTime, TRUE))
    @@ ("public/x.constructor" :> FileNode(<<65>>, StartTime, TRUE))
    @@ ("../etc/passwd" :> FileNode(<<114>>, StartTime, TRUE))

\* what another process may write into a file: one byte that is no UTF-8
NewContents == {<<255>>}

\* the node a path names; a trailing '/' names the same node
FsNode(path) ==
    LET p == IF Len(path) > 1 /\ CharAt(path, Len(path)) = "/"
             THEN SubSeq(path, 1, Len(path) - 1) ELSE path
    IN  IF p \in DOMAIN fs THEN fs[p] ELSE NoNode

\* the fs.Stats of an existing node
StatOf(node) ==
    IF node.type = "dir" THEN [isDirectory |-> TRUE, size |-> 0, mtime |-> StartTime]
    ELSE [isDirectory |-> FALSE, size |-> Len(node.bytes), mtime |-> node.mtime]

\* the static root, and the paths under it
StaticRoot == "public"
UnderRoot(path) == path = StaticRoot \/ StartsWith(path, StaticRoot \o "/")

-----------------------------------------------------------------------------
(* The server: configuration, requests *)

\* config.auth / config.route: absent, the CLI's callback (test.js), or
\* another callback
AuthKinds == {"none", "onAuth", "custom"}
RouteKinds == {"none", "onRoute", "custom"}

JsFalse == "false"
JsTrue == "true"

\* what a call of the auth callback does: the value it returns and the
\* headers it sets on the response
AuthOutcomes(kind) ==
    IF kind = "none" THEN {[called |-> FALSE, ret |-> Undefined, sets |-> <<>>]}
    ELSE IF kind = "onAuth" THEN {[called |-> TRUE, ret |-> JsTrue, sets |-> <<>>]}
    ELSE {[called |-> TRUE, ret |-> JsFalse, sets |-> <<>>],
          [called |-> TRUE, ret |-> JsTrue, sets |-> <<>>],
          [called |-> TRUE, ret |-> Undefined, sets |-> <<>>],
          [called |-> TRUE, ret |-> JsTrue, sets |-> ("Content-Type" :> "text/plain")]}

RECURSIVE SetHeaders(_, _)
SetHeaders(response, hs) ==
    IF DOMAIN hs = {} THEN response
    ELSE LET n == CHOOSE x \in DOMAIN hs : TRUE
         IN  SetHeaders(SetHeader(response, n, hs[n]),
                        [m \in (DOMAIN hs) \ {n} |-> hs[m]])

Urls ==
    {"/index.html", "/logo.png", "/missing.xyz", "/../../etc/passwd", "/docs",
     "/x.constructor"}
Methods == {"GET", "HEAD"}

\* the ETag of index.html as the server starts
StartETag == NumStr(1) \o "-" \o NumStr(StartTime)

\* request.headers: the validators a client sends
RequestHeaders ==
    {inm @@ ims :
        inm \in {<<>>, ("if-none-match" :> StartETag)},
        ims \in {<<>>, ("if-modified-since" :> "yesterday"),
                 ("if-modified-since" :> ToUTCString(2 * MsPerSecond))}}

\* Server.defaults.maxAge
DefaultMaxAge == 31536000

\* no request in hand
IdleRequest == [pc |-> "idle"]

Init ==
    /\ config \in [auth : AuthKinds, route : RouteKinds, maxAge : {DefaultMaxAge}]
    /\ fs = InitFs
    /\ fsOps = 0
    /\ req = IdleRequest

-----------------------------------------------------------------------------
(* routeRequest, handleRequest and its two callbacks.  A request in hand  *)
(* is a record q: the request, what the auth callback did, the response,   *)
(* the calls made on Fs and on the route callback, and where it stands     *)
(* (pc): "stat" and "read" wait for the callback of Fs.stat / Fs.readFile, *)
(* "routed" is in the hands of a route callback, "done" was answered.      *)

\* the CLI's onRoute (test.js): this.sendResponse(response, '404: Not Found',
\* {code:404}); sendResponse takes its second argument as the config
onRoute(response) == sendResponse(response, PrimitiveString("404: Not Found"))

\* routeRequest as a bug would have it: the route callback is called
\* without 'return', and the default 404 follows it
routeRequestNoReturn(q) ==
    LET called == [q EXCEPT !.routeCalls =
                        IF config.route = "none" THEN @
                        ELSE Append(@, [request |-> q.request, self |-> "server"]),
                            !.response = IF config.route = "onRoute" THEN onRoute(@) ELSE @]
    IN  [called EXCEPT !.pc = "done",
                       !.routeRequests = @ + 1,
                       !.response = sendResponse(@, [code |-> 404,
                                                 content |-> Literal("404: Not Found")])]

\* routeRequest(request, response)
routeRequest(q) ==
    IF config.route = "none"
    THEN [q EXCEPT !.pc = "done",
                   !.routeRequests = @ + 1,
                   !.response = sendResponse(@, [code |-> 404,
                                                 content |-> Literal("404: Not Found")])]
    ELSE IF config.route = "onRoute"
    THEN [q EXCEPT !.pc = "done",
                   !.routeRequests = @ + 1,
                   !.routeCalls = Append(@, [request |-> q.request, self |-> "server"]),
                   !.response = onRoute(@)]
    ELSE [q EXCEPT !.pc = "routed",
                   !.routeRequests = @ + 1,
                   !.routeCalls = Append(@, [request |-> q.request, self |-> "server"])]

\* lines 113-116, as a bug would have them: any falsy return denies
AuthDeniesFalsy(auth) == auth.called /\ auth.ret \in {JsFalse, Undefined}

\* lines 113-116: an auth callback is configured and returned exactly false
AuthDenies(auth) == auth.called /\ auth.ret = JsFalse

\* handleRequest without lines 137-140: a directory's path goes to Fs.stat
\* as it is
handleRequestNoIndex(request, auth) ==
    LET response == SetHeaders(NewResponse, auth.sets)
        q == [pc |-> "stat", request |-> request, auth |-> auth,
              response |-> response, file |-> "", fsCalls |-> <<>>,
              routeRequests |-> 0, routeCalls |-> <<>>]
        file0 == PathNormalize("./public/" \o request.url)
    IN  IF AuthDenies(auth)
        THEN [q EXCEPT !.pc = "done",
                       !.response = sendResponse(@, [code |-> 401,
                                        content |-> Literal("401: Not Authorized")])]
        ELSE [q EXCEPT !.file = file0,
                       !.fsCalls = <<[op |-> "statSync", path |-> file0],
                                     [op |-> "stat", path |-> file0]>>]

\* handleRequest(request, response), up to the call of Fs.stat; auth is
\* what the auth callback does on this request
handleRequest(request, auth) ==
    LET response == SetHeaders(NewResponse, auth.sets)
        q == [pc |-> "stat", request |-> request, auth |-> auth,
              response |-> response, file |-> "", fsCalls |-> <<>>,
              routeRequests |-> 0, routeCalls |-> <<>>]
        file0 == PathNormalize("./public/" \o request.url)
        node == FsNode(file0)
        file == IF node.type /= "none" /\ StatOf(node).isDirectory
                THEN PathNormalize(file0 \o "/index.html")
                ELSE file0
    IN  IF AuthDenies(auth)
        THEN [q EXCEPT !.pc = "done",
                       !.response = sendResponse(@, [code |-> 401,
                                        content |-> Literal("401: Not Authorized")])]
        ELSE [q EXCEPT !.file = file,
                       !.fsCalls = <<[op |-> "statSync", path |-> file0],
                                     [op |-> "stat", path |-> file]>>]

\* the callback of Fs.stat as a bug would have it: line 146 without
\* 'return', so that after routeRequest the callback goes on to Fs.readFile
statCallbackNoReturn(q) ==
    LET node == FsNode(q.file)
        routed == IF node.type = "none" THEN routeRequest(q) ELSE q
    IN  [pc |-> "read", request |-> q.request, auth |-> q.auth,
         response |-> routed.response, file |-> q.file,
         fsCalls |-> Append(q.fsCalls, [op |-> "readFile", path |-> q.file]),
         routeRequests |-> routed.routeRequests, routeCalls |-> routed.routeCalls,
         stat |-> IF node.type = "none" THEN StatOf(FileNode(<<>>, StartTime, TRUE))
                  ELSE StatOf(node)]

\* the callback of Fs.stat(file, ...)
statCallback(q) ==
    LET node == FsNode(q.file)
    IN  IF node.type = "none"
        THEN routeRequest(q)
        ELSE [pc |-> "read", request |-> q.request, auth |-> q.auth,
              response |-> q.response, file |-> q.file,
              fsCalls |-> Append(q.fsCalls, [op |-> "readFile", path |-> q.file]),
              routeRequests |-> q.routeRequests, routeCalls |-> q.routeCalls,
              stat |-> StatOf(node)]

\* the headers handleRequest builds from the stat (lines 164-171)
FileHeaders(file, stat) ==
    [k \in {"Content-Type", "Content-Length", "Last-Modified", "Cache-Control",
            "ETag", "Accept-Ranges"} |->
        CASE k = "Content-Type" -> MimeLookup(file)
          [] k = "Content-Length" -> stat.size
          [] k = "Last-Modified" -> ToUTCString(stat.mtime)
          [] k = "Cache-Control" -> "public max-age=" \o NumStr(config.maxAge)
          [] k = "ETag" -> NumStr(stat.size) \o "-" \o NumStr(stat.mtime)
          [] k = "Accept-Ranges" -> "bytes"]

\* lines 151-159 as a bug would have them: the error is dropped, nothing
\* is sent
cannotReadDropped(done) == done

\* lines 151-159: the file cannot be read, answer 500
cannotRead(done) ==
    [done EXCEPT !.response = sendResponse(@, [code |-> 500,
        content |-> Literal("500: Cannot read file " \o "[" \o done.file \o "]")])]

\* the callback of Fs.readFile(file, ...)
readCallback(q) ==
    LET node == FsNode(q.file)
        err == node.type /= "file" \/ ~node.readable
        isHead == q.request.method = "HEAD"
        mimeType == MimeLookup(q.file)
        encoding == MimeEncoding(mimeType)
        headers == FileHeaders(q.file, q.stat)
        done == [pc |-> "done", request |-> q.request, auth |-> q.auth,
                 response |-> q.response, file |-> q.file, fsCalls |-> q.fsCalls,
                 routeRequests |-> q.routeRequests, routeCalls |-> q.routeCalls,
                 stat |-> q.stat, readError |-> err,
                 content |-> IF err THEN <<>> ELSE node.bytes]
    IN  IF err
        THEN cannotRead(done)
        \* line 163: Mime.encoding calls mimeType.substr, which a value that
        \* is no string does not have; the TypeError leaves the callback
        \* uncaught and nothing is sent
        ELSE IF mimeType = InheritedValue
        THEN [done EXCEPT !.pc = "crashed"]
        ELSE IF ~contentModified(q.request.headers, headers)
        THEN [done EXCEPT !.response =
                End([removeContentHeaders(@) EXCEPT !.statusCode = 304])]
        ELSE [done EXCEPT !.response = sendResponse(@,
                [mimeType |-> mimeType, encoding |-> encoding,
                 headers |-> headers, content |-> BufferContent(node.bytes),
                 headersOnly |-> isHead])]

\* a request arrives
HandleRequest ==
    /\ req.pc = "idle"
    /\ \E url \in Urls, method \in Methods, headers \in RequestHeaders,
          auth \in AuthOutcomes(config.auth) :
        req' = handleRequest([url |-> url, method |-> method, headers |-> headers], auth)
    /\ UNCHANGED <<config, fs, fsOps>>

StatCallback ==
    /\ req.pc = "stat"
    /\ req' = statCallback(req)
    /\ UNCHANGED <<config, fs, fsOps>>

ReadCallback ==
    /\ req.pc = "read"
    /\ req' = readCallback(req)
    /\ UNCHANGED <<config, fs, fsOps>>

-----------------------------------------------------------------------------
(* Other processes change the served files while a request is in flight *)

IsFile(p) == fs[p].type = "file"

\* the paths the site's maintainers touch: those under the static root
ServedPaths == {p \in DOMAIN fs : UnderRoot(p)}

FsWrite(p, bytes) ==
    /\ fsOps < MaxFsOps
    /\ IsFile(p)
    /\ fs' = [fs EXCEPT ![p] = FileNode(bytes, WriteTime, @.readable)]
    /\ fsOps' = fsOps + 1
    /\ UNCHANGED <<config, req>>

FsUnlink(p) ==
    /\ fsOps < MaxFsOps
    /\ IsFile(p)
    /\ fs' = [fs EXCEPT ![p] = NoNode]
    /\ fsOps' = fsOps + 1
    /\ UNCHANGED <<config, req>>

FsChmod(p) ==
    /\ fsOps < MaxFsOps
    /\ IsFile(p)
    /\ fs[p].readable
    /\ fs' = [fs EXCEPT ![p] = [@ EXCEPT !.readable = FALSE]]
    /\ fsOps' = fsOps + 1
    /\ UNCHANGED <<config, req>>

Next ==
    \/ HandleRequest
    \/ StatCallback
    \/ ReadCallback
    \/ \E p \in ServedPaths, bytes \in NewContents : FsWrite(p, bytes)
    \/ \E p \in ServedPaths : FsUnlink(p)
    \/ \E p \in ServedPaths : FsChmod(p)

Spec == Init /\ [][Next]_vars


-----------------------------------------------------------------------------
(* What a response put on the wire *)

\* the call that sent the head: the first writeHead, or the implicit one
HeadOps(response) ==
    {i \in 1..Len(response.log) : response.log[i].op \in {"writeHead", "implicitHeader"}}

HeadOp(response) ==
    response.log[CHOOSE i \in HeadOps(response) : \A j \in HeadOps(response) : i <= j]

\* the status code sent, 0 while no head was sent
StatusCode(response) ==
    IF HeadOps(response) = {} THEN 0 ELSE HeadOp(response).code

\* the headers sent, by lower-cased name: those of writeHead over those
\* set on the response before
SentHeaders(response) ==
    IF HeadOps(response) = {} THEN <<>>
    ELSE IF HeadOp(response).op = "implicitHeader" THEN response.headers
    ELSE LET h == HeadOp(response).headers
             lowered == [n \in {ToLowerCase(k) : k \in DOMAIN h} |->
                            h[CHOOSE k \in DOMAIN h : ToLowerCase(k) = n]]
         IN  lowered @@ response.headers

\* the bytes of the body, in the order written
RECURSIVE BodyOf(_)
BodyOf(log) ==
    IF log = <<>> THEN <<>>
    ELSE (IF Head(log).op = "write"
          THEN WireBytes(Head(log).chunk, Head(log).encoding) ELSE <<>>)
         \o BodyOf(Tail(log))

SentBody(response) == BodyOf(response.log)

\* the number of calls of one kind on the response
Count(response, op) == Cardinality({i \in 1..Len(response.log) : response.log[i].op = op})

\* response.end() was called, and it is the last call on the response
Finalized(response) ==
    /\ Count(response, "end") = 1
    /\ response.log[Len(response.log)].op = "end"

\* the bytes of an ASCII string literal
Bytes(s) == Utf8Encode(CodeUnits(s))

\* the request left handleRequest (answered or handed to a route callback)
Left == req.pc \in {"done", "routed"}

\* auth said no
Denied == req.auth.called /\ req.auth.ret = JsFalse

\* the asynchronous stat failed / succeeded
StatFailed == Left /\ ~Denied /\ "stat" \notin DOMAIN req
StatOk == req.pc = "done" /\ "stat" \in DOMAIN req


-----------------------------------------------------------------------------
(* The claims *)

\* C1: when the auth callback returns exactly false, handleRequest answers
\* 401 with the body '401: Not Authorized' and then neither stats or reads
\* a file nor routes; in every other case (no callback, any other return
\* value) no 401 is sent and the request goes on to static resolution.
C1_AuthGate ==
    req.pc /= "idle" =>
        /\ Denied =>
            /\ req.pc = "done"
            /\ StatusCode(req.response) = 401
            /\ SentBody(req.response) = Bytes("401: Not Authorized")
            /\ Finalized(req.response)
            /\ req.fsCalls = <<>>
            /\ req.routeRequests = 0 /\ req.routeCalls = <<>>
        /\ ~Denied =>
            /\ StatusCode(req.response) /= 401
            /\ Len(req.fsCalls) >= 2
            /\ req.fsCalls[2] = [op |-> "stat", path |-> req.file]

\* C1 happens: a denied request for a path outside the root, answered
C1_Witness ==
    /\ req.pc = "done" /\ Denied
    /\ req.request.url = "/../../etc/passwd"
    /\ StatusCode(req.response) = 401

\* C2: no path handed to Fs.statSync, Fs.stat or Fs.readFile lies outside
\* the static root, and a URL whose normalized path leaves the root is
\* routed, never served.
C2_StaysUnderRoot ==
    req.pc /= "idle" =>
        /\ \A i \in 1..Len(req.fsCalls) : UnderRoot(req.fsCalls[i].path)
        /\ (Left /\ ~Denied /\ ~UnderRoot(PathNormalize("./public/" \o req.request.url)))
            => StatFailed

\* C3: when the asynchronous stat fails, the request goes to routeRequest
\* exactly once; a configured route callback is called once with the
\* request and the core writes nothing to the response itself (the
\* response holds what the callback wrote); with no route callback the
\* answer is 404 with the body '404: Not Found'.
C3_RoutedOnce ==
    StatFailed =>
        /\ req.routeRequests = 1
        /\ config.route = "none" =>
            /\ req.routeCalls = <<>>
            /\ StatusCode(req.response) = 404
            /\ SentBody(req.response) = Bytes("404: Not Found")
            /\ Finalized(req.response)
        /\ config.route /= "none" =>
            /\ req.routeCalls = <<[request |-> req.request, self |-> "server"]>>
            /\ req.response =
                 IF config.route = "onRoute"
                 THEN onRoute(SetHeaders(NewResponse, req.auth.sets))
                 ELSE SetHeaders(NewResponse, req.auth.sets)

\* C3 happens: a request whose file was removed, in the hands of a route
\* callback
C3_Witness ==
    /\ StatFailed /\ req.pc = "routed"
    /\ req.request.url = "/index.html"
    /\ req.response.log = <<>>

\* C4: with the CLI's callbacks (onAuth, onRoute), a GET for a URL with no
\* static file is answered with status 404.
C4_CliNotFound ==
    (/\ config.auth = "onAuth" /\ config.route = "onRoute"
     /\ StatFailed /\ req.request.method = "GET")
        => StatusCode(req.response) = 404


\* the file was read, and the request's validators say the client's copy
\* is current
NotModified ==
    /\ StatOk /\ ~req.readError
    /\ ~contentModified(req.request.headers, FileHeaders(req.file, req.stat))

\* C5: when contentModified returns false the answer is 304 with an empty
\* body, finalized, and no header sent has a name that begins with
\* 'Content-'.
C5_NotModified304 ==
    NotModified =>
        /\ StatusCode(req.response) = 304
        /\ SentBody(req.response) = <<>>
        /\ Count(req.response, "write") = 0
        /\ Finalized(req.response)
        /\ \A n \in DOMAIN SentHeaders(req.response) : ~StartsWith(n, "content-")

\* C6: a 200 answer for an existing, readable file carries Content-Type,
\* Content-Length, Last-Modified, Cache-Control 'public max-age=<maxAge>',
\* ETag '<size>-<mtime>' and Accept-Ranges 'bytes', and the body sent (for
\* a request that is to have one, so not HEAD) is the content read from
\* the file.
C6_FileResponse ==
    (StatOk /\ ~req.readError /\ StatusCode(req.response) = 200) =>
        LET h == SentHeaders(req.response)
        IN  /\ {"content-type", "content-length", "last-modified",
                "cache-control", "etag", "accept-ranges"} \subseteq DOMAIN h
            /\ h["cache-control"] = "public max-age=" \o NumStr(config.maxAge)
            /\ h["etag"] = NumStr(req.stat.size) \o "-" \o NumStr(req.stat.mtime)
            /\ h["accept-ranges"] = "bytes"
            /\ req.request.method /= "HEAD" => SentBody(req.response) = req.content

\* the answer to the same request sent as HEAD, on the same stat and the
\* same file
HeadTwin ==
    readCallback([pc |-> "read",
                  request |-> [req.request EXCEPT !.method = "HEAD"],
                  auth |-> req.auth,
                  response |-> SetHeaders(NewResponse, req.auth.sets),
                  file |-> req.file, fsCalls |-> req.fsCalls,
                  routeRequests |-> req.routeRequests, routeCalls |-> req.routeCalls,
                  stat |-> req.stat])

\* C7: on the same file state, HEAD and GET without validators both give
\* status 200 and the same headers, names and values, and HEAD writes no
\* body.
C7_HeadMatchesGet ==
    (/\ StatOk /\ ~req.readError
     /\ req.request.method = "GET" /\ req.request.headers = <<>>
     /\ FsNode(req.file) = FileNode(req.content, req.stat.mtime, TRUE)
     /\ Len(req.content) = req.stat.size) =>
        /\ StatusCode(req.response) = 200
        /\ StatusCode(HeadTwin.response) = 200
        /\ SentHeaders(HeadTwin.response) = SentHeaders(req.response)
        /\ SentBody(HeadTwin.response) = <<>>
        /\ Count(HeadTwin.response, "write") = 0

\* C10: when the stat found the file but reading it failed, the answer is
\* 500 with the body '500: Cannot read file [<path>]', finalized, whatever
\* the method and the validators; never 200 or 304, never no answer.
C10_ReadFailure500 ==
    (StatOk /\ req.readError) =>
        /\ StatusCode(req.response) = 500
        /\ SentBody(req.response) = Bytes("500: Cannot read file [" \o req.file \o "]")
        /\ Count(req.response, "writeHead") = 1
        /\ Finalized(req.response)

\* C10 happens: a HEAD request with matching If-None-Match and an
\* If-Modified-Since, its file made unreadable
C10_Witness ==
    /\ StatOk /\ req.readError
    /\ req.request.method = "HEAD"
    /\ DOMAIN req.request.headers = {"if-none-match", "if-modified-since"}
    /\ StatusCode(req.response) = 500


-----------------------------------------------------------------------------
(* contentModified on its own: SpecCM calls it on every combination of     *)
(* validators below and keeps the result beside the arguments              *)

\* the strings of at most n characters over an alphabet
RECURSIVE StringsUpTo(_, _)
StringsUpTo(alphabet, n) ==
    IF n = 0 THEN {""}
    ELSE LET shorter == StringsUpTo(alphabet, n - 1)
         IN  shorter \cup {s \o c : s \in shorter, c \in alphabet}

\* If-None-Match values: tags 'a' and 'b', commas and spaces; the HTTP
\* parser hands over a value without leading or trailing whitespace
NoneMatchValues ==
    {s \in StringsUpTo({"a", "b", ",", " "}, MaxHeaderLen) :
        LeadingSpaces(s) = 0 /\ TrailingSpaces(s) = 0}

CmRequestHeaders ==
    {[h \in {k \in {"if-none-match", "if-modified-since"} :
                (IF k = "if-none-match" THEN inm ELSE ims) /= Undefined} |->
        IF h = "if-none-match" THEN inm ELSE ims] :
        inm \in NoneMatchValues \cup {Undefined},
        ims \in {Undefined, "", "yesterday", ToUTCString(MsPerSecond),
                 ToUTCString(2 * MsPerSecond)}}

CmHeaders ==
    {[h \in {k \in {"ETag", "Last-Modified"} :
                (IF k = "ETag" THEN etag ELSE lm) /= Undefined} |->
        IF h = "ETag" THEN etag ELSE lm] :
        etag \in {Undefined, "a"},
        lm \in {Undefined, ToUTCString(StartTime), ToUTCString(WriteTime)}}

InitCM ==
    /\ config = [auth |-> "onAuth", route |-> "onRoute", maxAge |-> DefaultMaxAge]
    /\ fs = InitFs
    /\ fsOps = 0
    /\ req \in [pc : {"call"}, requestHeaders : CmRequestHeaders, headers : CmHeaders]

CallContentModified ==
    /\ req.pc = "call"
    /\ req' = [pc |-> "returned", requestHeaders |-> req.requestHeaders,
               headers |-> req.headers,
               result |-> contentModified(req.requestHeaders, req.headers)]
    /\ UNCHANGED <<config, fs, fsOps>>

NextCM == CallContentModified

SpecCM == InitCM /\ [][NextCM]_vars

\* s without the spaces that start and end it
Trim(s) == SubSeq(s, LeadingSpaces(s) + 1, Len(s) - TrailingSpaces(s))

\* the comma-separated list s has the element tag
ListContains(s, tag) ==
    \E k \in 1..Len(Split(s, ",")) : Trim(Split(s, ",")[k]) = tag

\* the call's If-None-Match list contains the response's ETag
TagMatches ==
    /\ "if-none-match" \in DOMAIN req.requestHeaders
    /\ "ETag" \in DOMAIN req.headers
    /\ ListContains(req.requestHeaders["if-none-match"], req.headers["ETag"])

\* the call's If-Modified-Since is a string that is no date
SinceUnparsable ==
    /\ "if-modified-since" \in DOMAIN req.requestHeaders
    /\ req.requestHeaders["if-modified-since"] /= ""
    /\ DateParse(req.requestHeaders["if-modified-since"]) = NaN

\* C8: contentModified returns false whenever the If-None-Match list
\* contains the response's ETag, whatever If-Modified-Since and
\* Last-Modified are.
C8_TagMatchNotModified ==
    (req.pc = "returned" /\ TagMatches) => req.result = FALSE

\* C8 happens: the tag is second in the list, If-Modified-Since is no date
\* and Last-Modified is later than any date sent
C8_Witness ==
    /\ req.pc = "returned" /\ req.result = FALSE
    /\ req.requestHeaders = [h \in {"if-none-match", "if-modified-since"} |->
                                IF h = "if-none-match" THEN "b, a" ELSE "yesterday"]
    /\ req.headers = [h \in {"ETag", "Last-Modified"} |->
                                IF h = "ETag" THEN "a" ELSE ToUTCString(WriteTime)]

\* C9 as claimed: contentModified returns true when If-Modified-Since is an
\* unparsable date string.
C9_UnparsableIsModified ==
    (req.pc = "returned" /\ SinceUnparsable) => req.result = TRUE

\* C9 amended: contentModified returns true when If-Modified-Since is an
\* unparsable date string and the If-None-Match list does not contain the
\* response's ETag.
C9_UnparsableIsModifiedUnlessTag ==
    (req.pc = "returned" /\ SinceUnparsable /\ ~TagMatches) => req.result = TRUE

\* C9 happens: an unparsable If-Modified-Since beside an If-None-Match that
\* names another tag, and a Last-Modified
C9_Witness ==
    /\ req.pc = "returned" /\ req.result = TRUE
    /\ SinceUnparsable /\ ~TagMatches
    /\ "if-none-match" \in DOMAIN req.requestHeaders
    /\ req.headers = [h \in {"ETag", "Last-Modified"} |->
                                IF h = "ETag" THEN "a" ELSE ToUTCString(StartTime)]


-----------------------------------------------------------------------------
(* sendResponse on its own: SpecSR calls it once on a fresh response with a *)
(* config drawn from the sets below and keeps the response beside it        *)

\* the values a caller hands over as structured content
SrValues ==
    {JsNull, JsNaN, JsBool(TRUE), JsBool(FALSE), JsNum(0), JsNum(12),
     JsArr(<<>>), JsArr(<<JsNum(1), JsNull>>), JsArr(<<JsUndefined>>),
     JsObj(<<>>), JsObj(<< <<"a", JsNum(1)>> >>), JsObj(<< <<"a", JsUndefined>> >>),
     JsObj(<< <<"a", JsStr("b\"c")>>, <<"b", JsArr(<<JsBool(FALSE), JsStr("\\")>>)>> >>),
     JsObj(<< <<"n", JsNaN>> >>)}

\* config.content: absent, strings ('', 'hi', one with U+00E9, one with
\* U+20AC), Buffers, structured values
SrContents ==
    {StringContent(<<>>), Literal("hi"), StringContent(<<104, 233>>),
     StringContent(<<8364>>), BufferContent(<<65>>), BufferContent(<<195, 169>>)}
    \cup {ValueContent(v) : v \in SrValues}

\* an optional property of the config object
Opt(name, values) == {<<>>} \cup {name :> v : v \in values}

\* config.mimeType / config.headers: at most one of them
SrTypes ==
    Opt("mimeType", {"text/plain", "application/json"})
    \cup Opt("headers", {("Content-Type" :> "text/html") @@ ("X-Powered-By" :> "simpleServer"),
                           ("X-Powered-By" :> "simpleServer")})

SrConfigs ==
    {content @@ type @@ code @@ encoding @@ noHead @@ headersOnly @@ noClose :
        content \in Opt("content", SrContents),
        type \in SrTypes,
        code \in Opt("code", {404}),
        encoding \in Opt("encoding", {"binary"}),
        noHead \in Opt("noHead", {TRUE}),
        headersOnly \in Opt("headersOnly", {TRUE}),
        noClose \in Opt("noClose", {TRUE})}

InitSR ==
    /\ config = [auth |-> "onAuth", route |-> "onRoute", maxAge |-> DefaultMaxAge]
    /\ fs = InitFs
    /\ fsOps = 0
    /\ req \in [pc : {"call"}, conf : SrConfigs]

CallSendResponse ==
    /\ req.pc = "call"
    /\ req' = [pc |-> "returned", conf |-> req.conf,
               response |-> sendResponse(NewResponse, req.conf)]
    /\ UNCHANGED <<config, fs, fsOps>>

NextSR == CallSendResponse

SpecSR == InitSR /\ [][NextSR]_vars

\* a flag of the call's config is true
Flag(name) == name \in DOMAIN req.conf /\ req.conf[name] = TRUE

\* the Content-Type the call starts from: that of config.headers, else
\* config.mimeType, else 'text/html'
GivenContentType ==
    IF "headers" \in DOMAIN req.conf THEN HeaderOf(req.conf.headers, "Content-Type")
    ELSE IF "mimeType" \in DOMAIN req.conf THEN req.conf.mimeType
    ELSE "text/html"

\* the call has a structured content, a text Content-Type and is not
\* headers-only
StructuredAsText ==
    /\ req.pc = "returned"
    /\ "content" \in DOMAIN req.conf
    /\ req.conf.content.kind = "value"
    /\ GivenContentType /= Undefined
    /\ StartsWith(GivenContentType, "text")
    /\ ~Flag("headersOnly")

\* the body sent, read back as utf8 text and parsed as JSON
ParsedBody == JsonParse(FromUnits(Utf8Decode(SentBody(req.response))))

\* the body parses back to the content and, where the call writes a head,
\* the head says application/json
RoundTrips ==
    /\ ParsedBody = req.conf.content.value
    /\ ~Flag("noHead") => SentHeaders(req.response)["content-type"] = "application/json"

\* a value JSON has a form for: no NaN and no undefined in it
RECURSIVE IsJson(_)
IsJson(v) ==
    CASE v.t \in {"undefined", "nan"} -> FALSE
      [] v.t = "arr" -> \A i \in 1..Len(v.elems) : IsJson(v.elems[i])
      [] v.t = "obj" -> \A i \in 1..Len(v.props) : IsJson(v.props[i][2])
      [] OTHER -> TRUE

\* C11: sendResponse with a structured (non-string, non-Buffer) content, a
\* Content-Type beginning with 'text' (the default text/html included) and
\* headersOnly not true writes a body that parses as JSON back to the
\* original value and emits Content-Type application/json.
C11_JsonRoundTrip ==
    StructuredAsText => RoundTrips

\* C11 for the values JSON has a form for: the same round trip when the
\* content holds no NaN and no undefined.
C11_JsonRoundTripOfJsonValues ==
    (StructuredAsText /\ IsJson(req.conf.content.value)) => RoundTrips

C11_Witness ==
    /\ StructuredAsText
    /\ req.conf.content.value.t = "obj"
    /\ Len(req.conf.content.value.props) = 2
    /\ ~Flag("noHead")
    /\ RoundTrips

\* config.content is a string when the call reaches line 242 (given as one,
\* or converted from a Buffer or a structured value), and the call writes it
WroteString ==
    /\ req.pc = "returned"
    /\ "content" \in DOMAIN req.conf
    /\ ~Flag("headersOnly")
    /\ \/ req.conf.content.kind = "string"
       \/ /\ GivenContentType /= Undefined
          /\ StartsWith(GivenContentType, "text")

\* C12: whenever the final body is a string and noClose is not true, the
\* Content-Length sendResponse emits is the number of bytes of the body as
\* written in the response encoding, not its number of characters.
C12_ContentLengthInBytes ==
    (WroteString /\ ~Flag("noClose") /\ ~Flag("noHead")) =>
        /\ "content-length" \in DOMAIN SentHeaders(req.response)
        /\ SentHeaders(req.response)["content-length"] = Len(SentBody(req.response))

\* the calls sendResponse itself made on the response, in order
RECURSIVE CallsOf(_)
CallsOf(log) ==
    IF log = <<>> THEN <<>>
    ELSE (IF Head(log).op = "implicitHeader" THEN <<>> ELSE <<Head(log).op>>)
         \o CallsOf(Tail(log))

\* the calls the flags of the config ask for
CallsAskedFor ==
    (IF Flag("noHead") THEN <<>> ELSE <<"writeHead">>)
    \o (IF Flag("headersOnly") THEN <<>> ELSE <<"write">>)
    \o (IF Flag("noClose") THEN <<>> ELSE <<"end">>)

\* C13: each sendResponse call does writeHead, then write, then end, each
\* gated on its own flag: writeHead(code or 200, headers) iff noHead is not
\* true, the body write iff headersOnly is not true, end iff noClose is not
\* true; no body byte goes out before the head.
C13_HeadBodyEnd ==
    req.pc = "returned" =>
        /\ CallsOf(req.response.log) = CallsAskedFor
        /\ ~Flag("noHead") =>
              /\ req.response.log[1].op = "writeHead"
              /\ req.response.log[1].code =
                    (IF "code" \in DOMAIN req.conf THEN req.conf.code ELSE 200)
        /\ \A i \in 1..Len(req.response.log) :
              req.response.log[i].op = "write" =>
                \E j \in 1..(i - 1) :
                    req.response.log[j].op \in {"writeHead", "implicitHeader"}

-----------------------------------------------------------------------------
(* mime.js on its own: SpecMime starts from the table the module loads from *)
(* mime.types, makes up to MaxTableOps further load / define calls and then *)
(* one lookup                                                               *)

\* contents of the files handed to load: an upper-case extension; a comment
\* line; tabs, CRLF line ends, an empty and a whitespace-only line; an
\* empty file
MimeFiles ==
    {"text/x-a aa AB\n",
     "# note\ntext/x-a aa\n",
     "text/x-a\taa\r\n\r\n   \r\ntext/x-b bb",
     ""}

\* maps handed to define
MimeMaps ==
    {<< <<"text/x-a", <<"aa", "AB">> >> >>,
     << <<"text/x-b", <<"bb">> >>, <<"image/png", <<"aa">> >> >>}

\* paths looked up, and the defaultType argument
MimePaths ==
    {"x.aa", "x.AA", "x.ab", "x.AB", "x.bb", "x.zz", "x", "dir.aa/x",
     "logo.PNG", "x.note", "x.constructor"}
MimeFallbacks == {Undefined, "text/x-fallback"}

InitMime ==
    /\ config = [auth |-> "onAuth", route |-> "onRoute", maxAge |-> DefaultMaxAge]
    /\ fs = InitFs
    /\ fsOps = 0
    /\ req = [pc |-> "table", types |-> MimeTypes, ops |-> 0, last |-> [op |-> "none"]]

MimeLoad(content) ==
    /\ req.pc = "table"
    /\ req.ops < MaxTableOps
    /\ req' = [req EXCEPT !.types = load(@, content), !.ops = @ + 1,
                          !.last = [op |-> "load", content |-> content,
                                    before |-> req.types]]
    /\ UNCHANGED <<config, fs, fsOps>>

MimeDefine(map) ==
    /\ req.pc = "table"
    /\ req.ops < MaxTableOps
    /\ req' = [req EXCEPT !.types = define(@, map), !.ops = @ + 1,
                          !.last = [op |-> "define", map |-> map,
                                    before |-> req.types]]
    /\ UNCHANGED <<config, fs, fsOps>>

MimeLookupCall(pathname, defaultType) ==
    /\ req.pc = "table"
    /\ req' = [pc |-> "looked", types |-> req.types, pathname |-> pathname,
               defaultType |-> defaultType,
               result |-> lookup(req.types, pathname, defaultType)]
    /\ UNCHANGED <<config, fs, fsOps>>

NextMime ==
    \/ \E content \in MimeFiles : MimeLoad(content)
    \/ \E map \in MimeMaps : MimeDefine(map)
    \/ \E pathname \in MimePaths, defaultType \in MimeFallbacks :
            MimeLookupCall(pathname, defaultType)

SpecMime == InitMime /\ [][NextMime]_vars

\* the lower-cased extension of a path, '' if it has none
LowerExt(pathname) ==
    ToLowerCase(SubSeq(PathExtname(pathname), 2, Len(PathExtname(pathname))))

\* the extensions of the table that are the path's but for letter case
KeysFor(types, pathname) ==
    {k \in DOMAIN types : k /= "" /\ ToLowerCase(k) = LowerExt(pathname)}

\* C14: lookup is case-insensitive on the extension: paths whose extensions
\* differ only in letter case get the same type, the one the table defines
\* for that extension whatever its case in the table; a path whose
\* extension is not in the table, or that has none, gets the fallback
\* argument, else application/octet-stream.
C14_LookupIgnoresCase ==
    req.pc = "looked" =>
        /\ \A p \in MimePaths :
              ToLowerCase(p) = ToLowerCase(req.pathname) =>
                lookup(req.types, p, req.defaultType) = req.result
        /\ KeysFor(req.types, req.pathname) /= {} =>
              req.result \in {req.types[k] : k \in KeysFor(req.types, req.pathname)}
        /\ KeysFor(req.types, req.pathname) = {} =>
              req.result = (IF req.defaultType /= Undefined THEN req.defaultType
                            ELSE "application/octet-stream")

\* s without the whitespace that starts and ends it
StripSpace(s) ==
    LET t == ReplaceClean(s)
    IN  SubSeq(t, FirstNonSep(t, 1, Spaces), Len(t))

\* the (extension -> type) pairs of the record lines of a file: a line that
\* is empty, whitespace only or a '#' comment has none
RECURSIVE RecordPairs(_, _)
RecordPairs(lines, types) ==
    IF lines = <<>> THEN types
    ELSE LET line == StripSpace(Head(lines))
             fields == SplitRuns(line, Spaces)
         IN  IF line = "" \/ CharAt(line, 1) = "#"
             THEN RecordPairs(Tail(lines), types)
             ELSE RecordPairs(Tail(lines), DefineExts(types, Head(fields), Tail(fields)))

\* C15: load adds to the table exactly the (extension -> type) pairs of the
\* record lines 'mime-type ext1 ext2 ...'; a '#' comment, blank or
\* whitespace-only line contributes no entry.
C15_LoadSkipsComments ==
    (req.pc = "table" /\ req.last.op = "load") =>
        req.types = RecordPairs(SplitRuns(req.last.content, Newlines), req.last.before)

\* the call has a parseable If-Modified-Since and a Last-Modified
SinceApplies ==
    /\ "if-modified-since" \in DOMAIN req.requestHeaders
    /\ req.requestHeaders["if-modified-since"] /= ""
    /\ DateParse(req.requestHeaders["if-modified-since"]) /= NaN
    /\ "Last-Modified" \in DOMAIN req.headers

\* Last-Modified is not later than If-Modified-Since
NotLater ==
    DateParse(req.headers["Last-Modified"])
        <= DateParse(req.requestHeaders["if-modified-since"])

\* C16: with no matching If-None-Match tag, and both a parseable
\* If-Modified-Since and a Last-Modified present, contentModified returns
\* false exactly when lastModified <= modifiedSince; where neither check
\* applies (header absent, ETag missing, tag not in the list, Last-Modified
\* later) it returns true.
C16_SinceCheck ==
    (req.pc = "returned" /\ ~TagMatches) =>
        IF SinceApplies THEN req.result = ~NotLater ELSE req.result = TRUE

\* a call the date check decides: no tag matches and Last-Modified is not
\* later than If-Modified-Since
C16_Witness ==
    /\ req.pc = "returned"
    /\ ~TagMatches
    /\ SinceApplies
    /\ NotLater
    /\ "if-none-match" \in DOMAIN req.requestHeaders
    /\ req.result = FALSE

-----------------------------------------------------------------------------
(* The claims on handleRequest, continued *)

\* the path the URL resolved to (the one given to Fs.statSync) and whether
\* it is a directory; no directory is created or removed during a run
ResolvedPath == req.fsCalls[1].path
ResolvedToDir == FsNode(ResolvedPath).type = "dir"

\* the paths given to Fs.stat and Fs.readFile
AsyncPaths == {req.fsCalls[i].path : i \in 2..Len(req.fsCalls)}

\* C17: when the URL resolves to a directory, handleRequest appends
\* index.html and checks that path again: it serves the index file if it
\* exists and routes the request if not, and never stats asynchronously or
\* reads the directory itself; a URL that resolves to a regular file keeps
\* its path.
C17_DirectoryIndex ==
    (req.pc /= "idle" /\ ~Denied) =>
        /\ req.file = (IF ResolvedToDir THEN ResolvedPath \o "/index.html"
                       ELSE ResolvedPath)
        /\ AsyncPaths = {req.file}
        /\ StatFailed =>
              /\ req.routeRequests = 1
              /\ \A i \in 1..Len(req.fsCalls) : req.fsCalls[i].op /= "readFile"
        /\ (StatOk /\ ~req.readError) =>
              /\ req.routeRequests = 0
              /\ StatusCode(req.response) \in {200, 304}
              /\ (StatusCode(req.response) = 200 /\ req.request.method = "GET") =>
                    Len(SentBody(req.response)) > 0

\* a directory URL answered with its index file
C17_Witness ==
    /\ req.pc = "done"
    /\ StatOk
    /\ ResolvedToDir
    /\ req.file = "public/docs/index.html"
    /\ StatusCode(req.response) = 200
    /\ req.content = <<195, 169>>

\* the request reached Done: the core finalized the response, or the request
\* is in the hands of the configured route callback
Done ==
    \/ req.pc = "done" /\ Finalized(req.response)
    \/ req.pc = "routed"

\* a callback of the request is still to come: the only steps that change a
\* request in hand are StatCallback (at "stat") and ReadCallback (at "read")
CallbackPending == req.pc \in {"stat", "read"}

\* C19: every request that came in eventually reaches Done, given that each
\* pending stat / readFile callback fires and the auth and route callbacks
\* return: the response is finalized (401, 404, 500, 304 or 200) or the
\* request was handed to the route callback; an unexpected failure on the
\* way also ends in a finalized error response.  A request changes only by
\* its callbacks, so it reaches Done in every run where the callbacks fire
\* exactly if it never stands, short of Done, where no callback is pending.
C19_EventuallyDone ==
    (req.pc /= "idle" /\ ~CallbackPending) => Done

\* the entity tag sent with the response
SentETag == SentHeaders(req.response)["etag"]

\* C20: for every 200 file response the Content-Length and the size in the
\* ETag describe the body that is sent, also when another process modifies
\* the file between the stat and the completion of readFile: the stat the
\* headers are computed from and the content read belong to the same state
\* of the file.
C20_StatAndReadAgree ==
    (StatOk /\ ~req.readError /\ StatusCode(req.response) = 200) =>
        /\ req.stat.size = Len(req.content)
        /\ SentETag = NumStr(Len(req.content)) \o "-" \o NumStr(req.stat.mtime)
        /\ (req.request.method = "GET" /\ MimeEncoding(MimeLookup(req.file)) = "binary") =>
                /\ SentBody(req.response) = req.content
                /\ SentHeaders(req.response)["content-length"] = Len(req.content)

-----------------------------------------------------------------------------
(* Requests handled concurrently.  The server is one process: each call of *)
(* handleRequest and each callback runs to its end, and the callbacks of    *)
(* the requests in flight run in any order, interleaved with the writes of  *)
(* other processes to the served files.  Every request has its own         *)
(* request, response, file and stat (the parameters and 'var's of the       *)
(* closures of lines 110-196); config and the file system are shared.       *)
(* Here req is the function from the requests to what Spec keeps in req.    *)

\* the number of requests in flight together
MaxRequests == 2
Requests == 1..MaxRequests

ConcUrls == {"/index.html", "/missing.xyz"}
ConcHeaders == {<<>>, ("if-none-match" :> StartETag)}

\* the served files these requests name
ConcPaths == {"public/index.html"}

InitConc ==
    /\ config \in [auth : AuthKinds, route : RouteKinds, maxAge : {DefaultMaxAge}]
    /\ fs = InitFs
    /\ fsOps = 0
    /\ req = [i \in Requests |-> IdleRequest]

ConcHandleRequest(i) ==
    /\ req[i].pc = "idle"
    /\ \E url \in ConcUrls, method \in Methods, headers \in ConcHeaders,
          auth \in AuthOutcomes(config.auth) :
        req' = [req EXCEPT ![i] =
                    handleRequest([url |-> url, method |-> method, headers |-> headers],
                                  auth)]
    /\ UNCHANGED <<config, fs, fsOps>>

ConcStatCallback(i) ==
    /\ req[i].pc = "stat"
    /\ req' = [req EXCEPT ![i] = statCallback(req[i])]
    /\ UNCHANGED <<config, fs, fsOps>>

ConcReadCallback(i) ==
    /\ req[i].pc = "read"
    /\ req' = [req EXCEPT ![i] = readCallback(req[i])]
    /\ UNCHANGED <<config, fs, fsOps>>

NextConc ==
    \/ \E i \in Requests : ConcHandleRequest(i)
    \/ \E i \in Requests : ConcStatCallback(i)
    \/ \E i \in Requests : ConcReadCallback(i)
    \/ \E p \in ConcPaths, bytes \in NewContents : FsWrite(p, bytes)
    \/ \E p \in ConcPaths : FsUnlink(p)
    \/ \E p \in ConcPaths : FsChmod(p)

SpecConc == InitConc /\ [][NextConc]_vars

\* request i was answered by the core: not by a route callback
CoreAnswered(i) == req[i].pc = "done" /\ req[i].routeCalls = <<>>

\* the last call on the response is end()
EndIsLast(response) == response.log[Len(response.log)].op = "end"

\* C18: on every path of handleRequest that the core itself answers (401,
\* default 404, 500, 304, 200) the response is finalized at most once:
\* writeHead is called at most once, end exactly once, and nothing is
\* written to a response after its end, whatever the order in which the
\* stat and read callbacks of the requests in flight run.
C18_FinalizedOnce ==
    \A i \in Requests :
        /\ req[i].pc \in {"stat", "read"} => req[i].response.log = <<>>
        /\ CoreAnswered(i) =>
              /\ Count(req[i].response, "writeHead") <= 1
              /\ Count(req[i].response, "end") = 1
              /\ EndIsLast(req[i].response)
              /\ StatusCode(req[i].response) \in {401, 404, 500, 304, 200}

\* two requests for the same file in flight together, answered differently:
\* the file was removed or made unreadable after one read and before the
\* other
C18_Witness ==
    /\ CoreAnswered(1)
    /\ CoreAnswered(2)
    /\ req[1].request.url = req[2].request.url
    /\ StatusCode(req[1].response) = 500
    /\ StatusCode(req[2].response) = 200
    /\ Finalized(req[1].response)
    /\ Finalized(req[2].response)

=============================================================================
